---- MODULE Spec2Model ----
(***************************************************************************)
(* One run of examples/offline_inference/vision_language_pooling.py:       *)
(* main(args) dispatches on the task to run_encode or run_score, which     *)
(* build the sample query, call the model adapter, construct the engine    *)
(* and make one embed / score call, then print the outputs.                *)
(*                                                                         *)
(* The inference engine (LLM), fetch_image and the arguments are external: *)
(* the arguments are drawn from small sets in Init, and every external     *)
(* call either returns or raises, chosen nondeterministically.             *)
(***************************************************************************)
EXTENDS Integers, Sequences, FiniteSets, TLC

VARIABLES
    args,        \* the Namespace given to main: task, model_name, modality, seed
    pc,          \* position of the run
    invoked,     \* the drivers main has called, in order
    query,       \* local `query` of the driver (None until get_query returns)
    req_data,    \* local `req_data` of the driver (None until the adapter returns)
    fetches,     \* URLs given to fetch_image, in order
    LLM_calls,   \* keyword arguments of every LLM(...) construction, in order
    engine_ops,  \* every llm.embed / llm.score call, in order
    outputs,     \* local `outputs` of the driver
    stdout,      \* what has been printed
    error        \* the exception that ended the run (None while none is raised)

vars == <<args, pc, invoked, query, req_data, fetches, LLM_calls, engine_ops,
          outputs, stdout, error>>

\* ------------------------------------------------------------ bounds

\* --seed is None or an integer in 0..MaxSeed.
MaxSeed == 1

\* The engine returns between 0 and MaxOutputs outputs.
MaxOutputs == 2

\* ------------------------------------------------- Python values

\* Optional[T]: None, or one value.
None == {}

Some(v) == {v}

Val(o) == CHOOSE v \in o : TRUE

\* A dataclass field of EngineArgs: left at the library's default, or given.
Default == <<>>

Given(v) == <<v>>

\* The empty dict.
EmptyDict == <<>>

\* Python's  a | b  on dicts: b's entries override a's.
DictMerge(a, b) ==
    [k \in DOMAIN a \cup DOMAIN b |-> IF k \in DOMAIN b THEN b[k] ELSE a[k]]

\* The outcome of a call: a returned value or a raised exception, and the
\* URLs it fetched on the way.
Return(v, urls) == [ret |-> Some(v), exc |-> None, fetched |-> urls]

Raise(e, urls) == [ret |-> None, exc |-> Some(e), fetched |-> urls]

ValueError(msg, where) == [type |-> "ValueError", msg |-> msg, at |-> where]

KeyError(key, where) == [type |-> "KeyError", msg |-> key, at |-> where]

\* An exception of an external collaborator (fetch_image, LLM, embed, score).
ExternalError(where) == [type |-> "ExternalError", msg |-> "", at |-> where]

\* "-" * n
RECURSIVE Dashes(_)
Dashes(n) == IF n = 0 THEN "" ELSE "-" \o Dashes(n - 1)

\* ------------------------------------------------------ data types

QueryModality == {"text", "image", "text+image", "text+images"}

TextQuery(modality, text) == [modality |-> modality, text |-> text]

ImageQuery(modality, image) == [modality |-> modality, image |-> image]

\* TextImageQuery built without its text field.
TextImageQuery_no_text(modality, text, image) ==
    [modality |-> modality, image |-> image]

TextImageQuery(modality, text, image) ==
    [modality |-> modality, text |-> text, image |-> image]

TextImagesQuery(modality, text, image) ==
    [modality |-> modality, text |-> text, image |-> image]

\* ModelRequestData(engine_args, prompt=None, image=None, query=None,
\* documents=None)
ModelRequestData(engine_args, prompt, image, q, documents) ==
    [engine_args |-> engine_args, prompt |-> prompt, image |-> image,
     query |-> q, documents |-> documents]

\* The fields of EngineArgs this file reads or writes, each at its default.
EngineArgsFields ==
    [model |-> Default, runner |-> Default, max_model_len |-> Default,
     trust_remote_code |-> Default, mm_processor_kwargs |-> Default,
     limit_mm_per_prompt |-> Default, seed |-> Default]

\* EngineArgs(**kwargs): the given fields, the others at their defaults.
EngineArgs(kwargs) ==
    DictMerge(EngineArgsFields, [k \in DOMAIN kwargs |-> Given(kwargs[k])])

\* ---------------------------------------------------------- adapters

llama3_template ==
    <<"<|start_header_id|>user<|end_header_id|>\n\n",
      "<|eot_id|><|start_header_id|>assistant<|end_header_id|>\n\n \n">>

\* template.format(arg): the one {} of the template replaced by arg.
Format(template, arg) == template[1] \o arg \o template[2]

UnsupportedQuery(q, where) ==
    Raise(ValueError("Unsupported query modality: '" \o q.modality \o "'", where),
          <<>>)

\* run_e5_v with the text+image case handled like the image case.
run_e5_v_text_image(q) ==
    LET engine_args ==
            EngineArgs([model |-> "royokong/e5-v", runner |-> "pooling",
                        max_model_len |-> 4096,
                        limit_mm_per_prompt |-> [image |-> 1]])
    IN  IF q.modality = "text" THEN
            Return(ModelRequestData(engine_args,
                       Some(Format(llama3_template,
                            q.text \o "\nSummary above sentence in one word: ")),
                       None, None, None), <<>>)
        ELSE IF q.modality \in {"image", "text+image"} THEN
            Return(ModelRequestData(engine_args,
                       Some(Format(llama3_template,
                            "<image>\nSummary above image in one word: ")),
                       Some(q.image), None, None), <<>>)
        ELSE UnsupportedQuery(q, "run_e5_v")

run_e5_v(q) ==
    LET engine_args ==
            EngineArgs([model |-> "royokong/e5-v", runner |-> "pooling",
                        max_model_len |-> 4096,
                        limit_mm_per_prompt |-> [image |-> 1]])
    IN  IF q.modality = "text" THEN
            Return(ModelRequestData(engine_args,
                       Some(Format(llama3_template,
                            q.text \o "\nSummary above sentence in one word: ")),
                       None, None, None), <<>>)
        ELSE IF q.modality = "image" THEN
            Return(ModelRequestData(engine_args,
                       Some(Format(llama3_template,
                            "<image>\nSummary above image in one word: ")),
                       Some(q.image), None, None), <<>>)
        ELSE UnsupportedQuery(q, "run_e5_v")

run_vlm2vec(q) ==
    LET engine_args ==
            EngineArgs([model |-> "TIGER-Lab/VLM2Vec-Full", runner |-> "pooling",
                        max_model_len |-> 4096, trust_remote_code |-> TRUE,
                        mm_processor_kwargs |-> [num_crops |-> 4],
                        limit_mm_per_prompt |-> [image |-> 1]])
    IN  IF q.modality = "text" THEN
            Return(ModelRequestData(engine_args,
                       Some("Find me an everyday image that matches the given caption: "
                            \o q.text),
                       None, None, None), <<>>)
        ELSE IF q.modality = "image" THEN
            Return(ModelRequestData(engine_args,
                       Some("<|image_1|> Find a day-to-day image that looks similar to the provided image."),
                       Some(q.image), None, None), <<>>)
        ELSE IF q.modality = "text+image" THEN
            Return(ModelRequestData(engine_args,
                       Some("<|image_1|> Represent the given image with the following question: "
                            \o q.text),
                       Some(q.image), None, None), <<>>)
        ELSE UnsupportedQuery(q, "run_vlm2vec")

\* run_jinavl_reranker taking text+image for text+images.
run_jinavl_reranker_text_image(q) ==
    LET engine_args ==
            EngineArgs([model |-> "jinaai/jina-reranker-m0", runner |-> "pooling",
                        max_model_len |-> 32768, trust_remote_code |-> TRUE,
                        mm_processor_kwargs |->
                            [min_pixels |-> 3136, max_pixels |-> 602112],
                        limit_mm_per_prompt |-> [image |-> 1]])
    IN  IF q.modality \notin {"text+images", "text+image"} THEN
            UnsupportedQuery(q, "run_jinavl_reranker")
        ELSE
            Return(ModelRequestData(engine_args, None, None,
                       Some(q.text), Some(q.image)), <<>>)

run_jinavl_reranker(q) ==
    LET engine_args ==
            EngineArgs([model |-> "jinaai/jina-reranker-m0", runner |-> "pooling",
                        max_model_len |-> 32768, trust_remote_code |-> TRUE,
                        mm_processor_kwargs |->
                            [min_pixels |-> 3136, max_pixels |-> 602112],
                        limit_mm_per_prompt |-> [image |-> 1]])
    IN  IF q.modality # "text+images" THEN
            UnsupportedQuery(q, "run_jinavl_reranker")
        ELSE
            Return(ModelRequestData(engine_args, None, None,
                       Some(q.text), Some(q.image)), <<>>)

\* ------------------------------------------------------ query builder

DogUrl ==
    "https://upload.wikimedia.org/wikipedia/commons/thumb/4/47/American_Eskimo_Dog.jpg/360px-American_Eskimo_Dog.jpg"

CatUrl ==
    "https://upload.wikimedia.org/wikipedia/commons/thumb/b/b6/Felis_catus-cat_on_snow.jpg/179px-Felis_catus-cat_on_snow.jpg"

\* fetch_image(url): the image behind the URL, or the fetch's own error.
\* net is the outcome of the remote fetch.
fetch_image(url, net) ==
    IF net = "ok" THEN Return([image_of |-> url], <<url>>)
    ELSE Raise(ExternalError("fetch_image"), <<url>>)

SampleDocuments ==
    [content |->
        << [type |-> "image_url",
            image_url |-> [url |-> "https://raw.githubusercontent.com/jina-ai/multimodal-reranker-test/main/handelsblatt-preview.png"]],
           [type |-> "image_url",
            image_url |-> [url |-> "https://raw.githubusercontent.com/jina-ai/multimodal-reranker-test/main/paper-11.png"]] >>]

\* get_query handing out the image URLs unfetched.
get_query_unfetched(modality, net) ==
    IF modality = "text" THEN
        Return(TextQuery("text", "A dog sitting in the grass"), <<>>)
    ELSE IF modality = "image" THEN
        Return(ImageQuery("image", [image_of |-> DogUrl]), <<>>)
    ELSE IF modality = "text+image" THEN
        Return(TextImageQuery("text+image", "A cat standing in the snow.",
                              [image_of |-> CatUrl]), <<>>)
    ELSE IF modality = "text+images" THEN
        Return(TextImagesQuery("text+images", "slm markdown", SampleDocuments), <<>>)
    ELSE
        Raise(ValueError("Modality " \o modality \o " is not supported.",
                         "get_query"), <<>>)

get_query(modality, net) ==
    IF modality = "text" THEN
        Return(TextQuery("text", "A dog sitting in the grass"), <<>>)
    ELSE IF modality = "image" THEN
        LET f == fetch_image(DogUrl, net)
        IN  IF f.exc # None THEN f
            ELSE Return(ImageQuery("image", Val(f.ret)), f.fetched)
    ELSE IF modality = "text+image" THEN
        LET f == fetch_image(CatUrl, net)
        IN  IF f.exc # None THEN f
            ELSE Return(TextImageQuery("text+image", "A cat standing in the snow.",
                                       Val(f.ret)), f.fetched)
    ELSE IF modality = "text+images" THEN
        Return(TextImagesQuery("text+images", "slm markdown", SampleDocuments), <<>>)
    ELSE
        Raise(ValueError("Modality " \o modality \o " is not supported.",
                         "get_query"), <<>>)

\* ------------------------------------------------------ dispatch table

\* model_example_map[model](query)
model_example_map(model, q) ==
    IF model = "e5_v" THEN run_e5_v(q)
    ELSE IF model = "vlm2vec" THEN run_vlm2vec(q)
    ELSE IF model = "jinavl_reranker" THEN run_jinavl_reranker(q)
    ELSE Raise(KeyError(model, "model_example_map"), <<>>)

\* ------------------------------------------------- execution drivers

default_limits == [image |-> 0, video |-> 0, audio |-> 0]

\* field or {}  for a dict-valued field: a default or empty dict is falsy.
OrEmpty(field) ==
    IF field = Default THEN EmptyDict
    ELSE IF DOMAIN field[1] = {} THEN EmptyDict
    ELSE field[1]

\* The limits merged the other way round: the zeros override the adapter's.
run_encode_limits_reversed(rd) ==
    [rd EXCEPT !.engine_args.limit_mm_per_prompt =
                   Given(DictMerge(OrEmpty(@), default_limits))]

\* Disable other modalities to save memory (run_encode only): req_data with
\* engine_args.limit_mm_per_prompt reassigned in place.
run_encode_limits(rd) ==
    [rd EXCEPT !.engine_args.limit_mm_per_prompt =
                   Given(DictMerge(default_limits, OrEmpty(@)))]

\* dataclasses.asdict: a dict with one key per field.
asdict(ea) == [k \in DOMAIN ea |-> ea[k]]

\* The seed merged the other way round: the adapter's seed field overrides it.
seed_merge_reversed(ea, seed) == DictMerge([seed |-> Given(seed)], asdict(ea))

\* asdict(req_data.engine_args) | {"seed": seed}
seed_merge(ea, seed) == DictMerge(asdict(ea), [seed |-> Given(seed)])

\* The keyword arguments run_encode gives to LLM(...).
run_encode_engine_args(rd, seed) ==
    seed_merge(run_encode_limits(rd).engine_args, seed)

\* The keyword arguments run_score gives to LLM(...).
run_score_engine_args(rd, seed) == seed_merge(rd.engine_args, seed)

\* mm_data of run_encode: the image under "image" when there is one.
mm_data(rd) ==
    IF rd.image # None THEN [image |-> Val(rd.image)] ELSE EmptyDict

\* The payload of llm.embed.
embed_call(rd) ==
    [op |-> "embed", prompt |-> rd.prompt, multi_modal_data |-> mm_data(rd)]

\* The arguments of llm.score.
score_call(rd) ==
    [op |-> "score", query |-> rd.query, documents |-> rd.documents]

\* What run_encode prints for `outs`.
RECURSIVE encode_lines(_)
encode_lines(outs) ==
    IF outs = <<>> THEN <<>>
    ELSE <<Head(outs).embedding, Dashes(50)>> \o encode_lines(Tail(outs))

encode_print(outs) == <<Dashes(50)>> \o encode_lines(outs)

\* What run_score prints for `outs`.
score_print(outs) ==
    <<Dashes(30), [i \in 1..Len(outs) |-> outs[i].score], Dashes(30)>>

\* The driver main called last.
Running(d) == invoked # <<>> /\ invoked[Len(invoked)] = d

\* An exception leaves the driver and main: the run is over.
Raised(e) == pc' = "raised" /\ error' = Some(e)

\* ---------------------------------------------------------------- run

Tasks == {"embedding", "scoring", "generate"}

ModelNames == {"e5_v", "vlm2vec", "jinavl_reranker", "clip"}

Modalities == QueryModality \cup {"video"}

Seeds == {None} \cup {Some(n) : n \in 0..MaxSeed}

Init ==
    /\ args \in [task : Tasks, model_name : ModelNames,
                 modality : Modalities, seed : Seeds]
    /\ pc = "main"
    /\ invoked = <<>>
    /\ query = None
    /\ req_data = None
    /\ fetches = <<>>
    /\ LLM_calls = <<>>
    /\ engine_ops = <<>>
    /\ outputs = <<>>
    /\ stdout = <<>>
    /\ error = None

\* dispatch with run_encode as the fallback for every other task.
dispatch_fallback(task) ==
    IF task = "scoring" THEN "run_score" ELSE "run_encode"

\* The driver main calls for a task ("" when it calls none).
dispatch(task) ==
    IF task = "embedding" THEN "run_encode"
    ELSE IF task = "scoring" THEN "run_score"
    ELSE ""

main ==
    /\ pc = "main"
    /\ IF dispatch(args.task) # ""
       THEN /\ invoked' = Append(invoked, dispatch(args.task))
            /\ pc' = "get_query"
            /\ error' = error
       ELSE /\ Raised(ValueError("Unsupported task: " \o args.task, "main"))
            /\ invoked' = invoked
    /\ UNCHANGED <<args, query, req_data, fetches, LLM_calls, engine_ops,
                   outputs, stdout>>

\* query = get_query(modality)
driver_get_query(d) ==
    /\ pc = "get_query" /\ Running(d)
    /\ \E net \in {"ok", "fail"} :
         LET r == get_query(args.modality, net)
         IN  /\ fetches' = fetches \o r.fetched
             /\ IF r.exc # None
                THEN Raised(Val(r.exc)) /\ query' = query
                ELSE pc' = "adapter" /\ query' = r.ret /\ error' = error
    /\ UNCHANGED <<args, invoked, req_data, LLM_calls, engine_ops, outputs,
                   stdout>>

\* req_data = model_example_map[model](query)
driver_adapter(d) ==
    /\ pc = "adapter" /\ Running(d)
    /\ LET r == model_example_map(args.model_name, Val(query))
       IN  IF r.exc # None
           THEN Raised(Val(r.exc)) /\ req_data' = req_data
           ELSE pc' = "engine" /\ req_data' = r.ret /\ error' = error
    /\ UNCHANGED <<args, invoked, query, fetches, LLM_calls, engine_ops,
                   outputs, stdout>>

run_encode_get_query == driver_get_query("run_encode")

run_encode_adapter == driver_adapter("run_encode")

\* The limits patch, the seed merge and llm = LLM(**engine_args).
run_encode_LLM ==
    /\ pc = "engine" /\ Running("run_encode")
    /\ req_data' = Some(run_encode_limits(Val(req_data)))
    /\ LLM_calls' = Append(LLM_calls,
                           run_encode_engine_args(Val(req_data), args.seed))
    /\ \E ok \in BOOLEAN :
         IF ok THEN pc' = "call" /\ error' = error
         ELSE Raised(ExternalError("LLM"))
    /\ UNCHANGED <<args, invoked, query, fetches, engine_ops, outputs, stdout>>

\* run_encode_embed with a failure of llm.embed caught: the run goes on to
\* print an empty result.
run_encode_embed_caught ==
    /\ pc = "call" /\ Running("run_encode")
    /\ engine_ops' = Append(engine_ops, embed_call(Val(req_data)))
    /\ \E n \in -1..MaxOutputs :
         IF n >= 0
         THEN /\ outputs' = [i \in 1..n |-> [embedding |-> i]]
              /\ pc' = "print" /\ error' = error
         ELSE /\ outputs' = <<>>
              /\ pc' = "print" /\ error' = Some(ExternalError("embed"))
    /\ UNCHANGED <<args, invoked, query, req_data, fetches, LLM_calls, stdout>>

\* outputs = llm.embed({...})
run_encode_embed ==
    /\ pc = "call" /\ Running("run_encode")
    /\ engine_ops' = Append(engine_ops, embed_call(Val(req_data)))
    /\ \E n \in -1..MaxOutputs :
         IF n >= 0
         THEN /\ outputs' = [i \in 1..n |-> [embedding |-> i]]
              /\ pc' = "print" /\ error' = error
         ELSE Raised(ExternalError("embed")) /\ outputs' = outputs
    /\ UNCHANGED <<args, invoked, query, req_data, fetches, LLM_calls, stdout>>

run_encode_print ==
    /\ pc = "print" /\ Running("run_encode")
    /\ stdout' = stdout \o encode_print(outputs)
    /\ pc' = "done"
    /\ UNCHANGED <<args, invoked, query, req_data, fetches, LLM_calls,
                   engine_ops, outputs, error>>

run_score_get_query == driver_get_query("run_score")

run_score_adapter == driver_adapter("run_score")

\* The seed merge and llm = LLM(**engine_args).
run_score_LLM ==
    /\ pc = "engine" /\ Running("run_score")
    /\ LLM_calls' = Append(LLM_calls,
                           run_score_engine_args(Val(req_data), args.seed))
    /\ \E ok \in BOOLEAN :
         IF ok THEN pc' = "call" /\ error' = error
         ELSE Raised(ExternalError("LLM"))
    /\ UNCHANGED <<args, invoked, query, req_data, fetches, engine_ops,
                   outputs, stdout>>

\* outputs = llm.score(req_data.query, req_data.documents)
run_score_score ==
    /\ pc = "call" /\ Running("run_score")
    /\ engine_ops' = Append(engine_ops, score_call(Val(req_data)))
    /\ \E n \in -1..MaxOutputs :
         IF n >= 0
         THEN /\ outputs' = [i \in 1..n |-> [score |-> i]]
              /\ pc' = "print" /\ error' = error
         ELSE Raised(ExternalError("score")) /\ outputs' = outputs
    /\ UNCHANGED <<args, invoked, query, req_data, fetches, LLM_calls, stdout>>

run_score_print ==
    /\ pc = "print" /\ Running("run_score")
    /\ stdout' = stdout \o score_print(outputs)
    /\ pc' = "done"
    /\ UNCHANGED <<args, invoked, query, req_data, fetches, LLM_calls,
                   engine_ops, outputs, error>>

Next ==
    \/ main
    \/ run_encode_get_query
    \/ run_encode_adapter
    \/ run_encode_LLM
    \/ run_encode_embed
    \/ run_encode_print
    \/ run_score_get_query
    \/ run_score_adapter
    \/ run_score_LLM
    \/ run_score_score
    \/ run_score_print

Spec == Init /\ [][Next]_vars

\* ------------------------------------------------------------- claims

\* The modality subset each adapter documents.
Accepts(model) ==
    IF model = "e5_v" THEN {"text", "image"}
    ELSE IF model = "vlm2vec" THEN {"text", "image", "text+image"}
    ELSE {"text+images"}

Adapters == {"e5_v", "vlm2vec", "jinavl_reranker"}

\* The adapter of a registered model has been called with a built query.
AdapterCalled ==
    /\ pc \notin {"main", "get_query", "adapter"}
    /\ query # None
    /\ args.model_name \in Adapters

UnsupportedModalityError(where) ==
    ValueError("Unsupported query modality: '" \o args.modality \o "'", where)

\* The configuration the adapter returned for this run's query, as returned.
AdapterConfig ==
    Val(model_example_map(args.model_name, Val(query)).ret).engine_args

\* C1: once an adapter has been called on a query of one of the four
\* modalities, it has returned a ModelRequestData exactly when the modality is
\* in its documented subset (e5_v: text, image; vlm2vec: text, image,
\* text+image; jinavl_reranker: text+images); for every other modality it has
\* raised the unsupported-modality error and returned nothing.
C1_AdapterModalities ==
    AdapterCalled =>
        IF args.modality \in Accepts(args.model_name)
        THEN /\ req_data # None
             /\ \A e \in error : e.at \in {"LLM", "embed", "score"}
        ELSE /\ req_data = None
             /\ error = Some(UnsupportedModalityError("run_" \o args.model_name))

\* e5_v has rejected text+image, a modality vlm2vec accepts.
C1_Witness ==
    /\ AdapterCalled
    /\ args.model_name = "e5_v" /\ args.modality = "text+image"
    /\ req_data = None /\ error # None

\* C2 (as claimed): every embed call carries a prompt that is set, and every
\* score call carries a query and documents that are set.
C2_RequestInvariant ==
    \A i \in 1..Len(engine_ops) :
        LET op == engine_ops[i]
        IN  IF op.op = "embed" THEN op.prompt # None
            ELSE op.query # None /\ op.documents # None

\* C3: the limit_mm_per_prompt run_encode gives to the engine constructor has
\* exactly the keys image, video and audio; a key the adapter set keeps the
\* adapter's value (image = 1), every other key is 0.
C3_EncodeLimits ==
    (Running("run_encode") /\ LLM_calls # <<>>) =>
        LET lim == LLM_calls[1].limit_mm_per_prompt[1]
            own == AdapterConfig.limit_mm_per_prompt[1]
        IN  /\ DOMAIN lim = {"image", "video", "audio"}
            /\ \A k \in DOMAIN lim :
                 lim[k] = IF k \in DOMAIN own THEN own[k] ELSE 0
            /\ lim.image = 1

\* run_encode has constructed the engine for vlm2vec on a text+image query.
C3_Witness ==
    /\ Running("run_encode") /\ LLM_calls # <<>>
    /\ args.model_name = "vlm2vec" /\ args.modality = "text+image"

\* C4 (as claimed): the configuration a driver gives to the engine
\* constructor is the adapter's configuration with seed set to the given seed
\* and every other field as the adapter returned it.
C4_OnlySeedAltered ==
    \A i \in 1..Len(LLM_calls) :
        /\ DOMAIN LLM_calls[i] = DOMAIN AdapterConfig
        /\ LLM_calls[i].seed = Given(args.seed)
        /\ \A k \in DOMAIN AdapterConfig \ {"seed"} :
             LLM_calls[i][k] = AdapterConfig[k]

\* C4 (amended): the configuration a driver gives to the engine constructor
\* is the adapter's configuration with seed set to the given seed and, in
\* run_encode only, limit_mm_per_prompt completed with 0 for the keys of
\* image, video, audio the adapter did not set; no other field is altered.
C4_SeedAndLimitsAltered ==
    \A i \in 1..Len(LLM_calls) :
        /\ DOMAIN LLM_calls[i] = DOMAIN AdapterConfig
        /\ LLM_calls[i].seed = Given(args.seed)
        /\ \A k \in DOMAIN AdapterConfig \ {"seed", "limit_mm_per_prompt"} :
             LLM_calls[i][k] = AdapterConfig[k]
        /\ Running("run_score") =>
             LLM_calls[i].limit_mm_per_prompt = AdapterConfig.limit_mm_per_prompt
        /\ Running("run_encode") =>
             LLM_calls[i].limit_mm_per_prompt =
                 Given(DictMerge([image |-> 0, video |-> 0, audio |-> 0],
                                 AdapterConfig.limit_mm_per_prompt[1]))

\* run_encode has constructed the engine with an integer seed.
C4_Witness ==
    /\ Running("run_encode") /\ LLM_calls # <<>>
    /\ args.seed = Some(MaxSeed)
    /\ args.model_name = "e5_v" /\ args.modality = "text"

\* C5 (as claimed): the configuration run_score gives to the engine
\* constructor equals the one run_encode gives for the same model, modality
\* and seed.
C5_ScoreSetupAsEncode ==
    (Running("run_score") /\ LLM_calls # <<>>) =>
        LLM_calls[1] =
            run_encode_engine_args(
                Val(model_example_map(args.model_name, Val(query)).ret),
                args.seed)

\* The model and modality are a pair the selected adapter does not accept,
\* under either driver.
UnsupportedPair ==
    /\ args.task \in {"embedding", "scoring"}
    /\ args.model_name \in Adapters
    /\ args.modality \notin Accepts(args.model_name)

\* The unsupported-modality error of the query builder or of an adapter.
IsUnsupportedModality(e) ==
    \/ e = ValueError("Modality " \o args.modality \o " is not supported.",
                      "get_query")
    \/ e = UnsupportedModalityError("run_" \o args.model_name)

\* C6 (as claimed): for a pair the selected adapter does not accept, the
\* engine is never constructed, no embed or score call is made, and the run
\* ends with the unsupported-modality error.
C6_EndsUnsupported ==
    UnsupportedPair =>
        /\ LLM_calls = <<>> /\ engine_ops = <<>>
        /\ pc \in {"raised", "done"} =>
             \E e \in error : IsUnsupportedModality(e)

\* C6 (amended): for a pair the selected adapter does not accept, the engine
\* is never constructed and no embed or score call is made; the run ends with
\* the unsupported-modality error, or, when the modality is image or
\* text+image and the remote image fetch fails, with the fetch's error.
C6_EndsUnsupportedOrFetch ==
    UnsupportedPair =>
        /\ LLM_calls = <<>> /\ engine_ops = <<>> /\ stdout = <<>>
        /\ pc \in {"main", "get_query", "adapter", "raised"}
        /\ pc = "raised" =>
             \E e \in error :
                \/ IsUnsupportedModality(e)
                \/ /\ e = ExternalError("fetch_image")
                   /\ args.modality \in {"image", "text+image"}

\* jinavl_reranker with modality image has ended with the adapter's error.
C6_Witness ==
    /\ UnsupportedPair
    /\ args.model_name = "jinavl_reranker" /\ args.modality = "image"
    /\ pc = "raised"
    /\ error = Some(UnsupportedModalityError("run_jinavl_reranker"))

\* C7: main calls exactly one driver for the task: run_encode (and only embed
\* calls) for embedding, run_score (and only score calls) for scoring; for any
\* other task it raises the unsupported-task error with no driver called, no
\* engine constructed and no engine call made.
C7_Dispatch ==
    pc # "main" =>
        /\ args.task = "embedding" =>
             /\ invoked = <<"run_encode">>
             /\ \A i \in 1..Len(engine_ops) : engine_ops[i].op = "embed"
        /\ args.task = "scoring" =>
             /\ invoked = <<"run_score">>
             /\ \A i \in 1..Len(engine_ops) : engine_ops[i].op = "score"
        /\ args.task \notin {"embedding", "scoring"} =>
             /\ invoked = <<>>
             /\ pc = "raised"
             /\ error = Some(ValueError("Unsupported task: " \o args.task, "main"))
             /\ query = None /\ req_data = None /\ fetches = <<>>
             /\ LLM_calls = <<>> /\ engine_ops = <<>> /\ stdout = <<>>

\* main has raised the unsupported-task error.
C7_Witness ==
    /\ args.task = "generate" /\ pc = "raised"
    /\ error = Some(ValueError("Unsupported task: generate", "main"))

\* C8: in a run the engine is constructed at most once and embed / score is
\* called at most once, both exactly once when the run completes without
\* error; a failure of the construction or of the call ends the run with that
\* error: nothing runs after it, no second attempt is made and nothing is
\* printed.
C8_OneCallNoRetry ==
    /\ Len(LLM_calls) <= 1 /\ Len(engine_ops) <= 1
    /\ pc = "done" =>
         Len(LLM_calls) = 1 /\ Len(engine_ops) = 1 /\ error = None
    /\ \A e \in error :
         e.at \in {"LLM", "embed", "score"} =>
            /\ pc = "raised" /\ ~ENABLED Next
            /\ stdout = <<>>
            /\ Len(LLM_calls) = 1
            /\ Len(engine_ops) = IF e.at = "LLM" THEN 0 ELSE 1

\* llm.embed has failed and the run has ended with its error.
C8_Witness ==
    /\ pc = "raised" /\ error = Some(ExternalError("embed"))
    /\ Len(engine_ops) = 1 /\ stdout = <<>>

\* The fields of the query variant of a modality tag.
QueryFieldsOf(modality) ==
    IF modality = "text" THEN {"modality", "text"}
    ELSE IF modality = "image" THEN {"modality", "image"}
    ELSE {"modality", "text", "image"}

\* get_query has been called and has finished, by returning or by raising.
GetQueryFinished == invoked # <<>> /\ pc # "get_query"

\* The query is of the variant of the requested tag: the tag and exactly the
\* variant's fields (text; image; text and image; text and image-document
\* collection).
QueryOfRequestedVariant(q) ==
    /\ q.modality = args.modality
    /\ DOMAIN q = QueryFieldsOf(args.modality)
    /\ args.modality \in {"image", "text+image"} =>
         DOMAIN q.image = {"image_of"}
    /\ args.modality = "text+images" =>
         DOMAIN q.image = {"content"} /\ Len(q.image.content) = 2

\* For a tag outside the enumeration get_query has raised the
\* unsupported-modality error and returned no query.
OutsideTagRaises ==
    (args.modality \notin QueryModality /\ GetQueryFinished) =>
        /\ query = None
        /\ pc = "raised"
        /\ error = Some(ValueError("Modality " \o args.modality
                                       \o " is not supported.", "get_query"))

\* C9 (as claimed): for each of the four modality tags get_query returns a
\* query, of the requested tag and with exactly the fields of that variant;
\* for a tag outside the enumeration it raises the unsupported-modality error
\* and returns no query.
C9_QueryReturned ==
    /\ (args.modality \in QueryModality /\ GetQueryFinished) =>
         /\ query # None
         /\ \A q \in query : QueryOfRequestedVariant(q)
    /\ query # None => args.modality \in QueryModality
    /\ OutsideTagRaises

\* C9 (amended): for the tags text and text+images get_query returns a query
\* of the requested tag with exactly the fields of that variant; for the tags
\* image and text+image it does so when the remote image fetch succeeds, and
\* when the fetch fails it raises the fetch's error and returns no query; for
\* a tag outside the enumeration it raises the unsupported-modality error and
\* returns no query.
C9_QueryReturnedUnlessFetchFails ==
    /\ (args.modality \in QueryModality /\ GetQueryFinished) =>
         \/ /\ query # None
            /\ \A q \in query : QueryOfRequestedVariant(q)
            /\ \A e \in error : e.at \notin {"get_query", "fetch_image"}
            /\ Len(fetches) =
                 IF args.modality \in {"image", "text+image"} THEN 1 ELSE 0
         \/ /\ args.modality \in {"image", "text+image"}
            /\ query = None
            /\ Len(fetches) = 1
            /\ pc = "raised"
            /\ error = Some(ExternalError("fetch_image"))
    /\ query # None => args.modality \in QueryModality
    /\ OutsideTagRaises

\* get_query has returned the text+image variant after a successful fetch.
C9_Witness ==
    /\ GetQueryFinished
    /\ query # None /\ args.modality = "text+image"
    /\ Val(query).text = "A cat standing in the snow."
    /\ fetches = <<CatUrl>>

\* C10: in both drivers the remote image fetch of modalities image and
\* text+image comes before the adapter's validation: when the adapter is
\* reached, and so when it raises the unsupported-modality error, the fetch
\* has been performed; when the fetch fails the run has ended with the
\* fetch's error, the adapter was never called and the unsupported-modality
\* error is not raised.
C10_FetchBeforeValidation ==
    /\ (args.modality \in {"image", "text+image"}
            /\ pc \notin {"main", "get_query"} /\ query # None) =>
         Len(fetches) = 1
    /\ \A e \in error :
         (e.type = "ValueError" /\ e.at \in {"run_e5_v", "run_jinavl_reranker"}
             /\ args.modality \in {"image", "text+image"}) =>
            fetches \in {<<DogUrl>>, <<CatUrl>>}
    /\ (fetches # <<>> /\ query = None) =>
         /\ pc = "raised"
         /\ error = Some(ExternalError("fetch_image"))
         /\ req_data = None

\* e5_v with modality text+image: the fetch was made and failed, and the run
\* ended with the fetch's error.
C10_Witness ==
    /\ args.model_name = "e5_v" /\ args.modality = "text+image"
    /\ fetches = <<CatUrl>> /\ query = None
    /\ error = Some(ExternalError("fetch_image"))

====
